---- MODULE Spec2Model ----
(***************************************************************************)
(* Model of the occlusion-aware visibility-distribution search of          *)
(* sd_maskrcnn/envs/bin_heap_env.py (class BinHeapEnv):                    *)
(*   render_target_modal_mask, find_target_distribution_2d and             *)
(*   find_target_distribution_3d.                                          *)
(*                                                                         *)
(* Depth images are functions from pixels <<row, col>> to naturals, 0      *)
(* meaning "no surface along the ray" (pyrender's depth convention).       *)
(* The heap objects other than the target are one mesh, "objs": the code   *)
(* treats them alike (it only loops over scene.mesh_nodes).                *)
(* Depths are integers: the code only subtracts and compares them.         *)
(* The rotation of the 3D search is computed exactly, from four-digit      *)
(* cosines and sines; the code's floating-point products can move a        *)
(* rotated coordinate that is an integer by one pixel.                     *)
(***************************************************************************)
EXTENDS Integers, Sequences, FiniteSets, TLC

VARIABLES
    camera,             \* self.camera: [height, width]
    scene,              \* self._scene: [nodes, depth], the meshes and their depth maps
    is_visible,         \* mesh.is_visible of every mesh of the scene
    pc,                 \* position of the running search
    mode,               \* "2d" / "3d": which search was called ("none" when idle)
    pre_visible,        \* is_visible when the running search was called
    full_depth,         \* locals of render_target_modal_mask
    plane_depth,
    target_depth,
    target_modal_mask,
    target_inds,        \* locals of the search, <<>> until the search sets them
    target_centroid,    \* <<row sum, column sum>>: the mean is this over Len(target_inds)
    target_depth_offset,
    grid,               \* the distinct columns of grid, each with how many columns equal it
    shifted_target_inds,
    in_bounds_mask,
    visible_shifted_target_mask,
    target_inds_mask,
    intersection,
    union,
    match_mask,         \* match_mask (occluded branch) / iou_mask (visible branch)
    matching_target_inds, \* pixel |-> how many selected index pairs name it
    iou_thresh,         \* <<num, den>>, the threshold of the visible regime (<<0, 0>>: unset)
    dist_im,            \* the returned binary image
    soft_dist_im,       \* the returned intensity image
    outcome             \* "none", "images", "StopIteration", "IndexError"

rendered == <<full_depth, plane_depth, target_depth, target_modal_mask>>

\* the arrays of the search that are indexed by pixel of the target
extracted == <<target_inds, target_centroid, target_depth_offset, grid>>

\* the arrays of the search that are indexed by candidate
shifted == <<shifted_target_inds, in_bounds_mask>>

scored == <<visible_shifted_target_mask, target_inds_mask, intersection, union,
            match_mask, matching_target_inds, iou_thresh>>

returned == <<dist_im, soft_dist_im, outcome>>

vars == <<camera, scene, is_visible, pc, mode, pre_visible, rendered, extracted,
          shifted, scored, returned>>

-----------------------------------------------------------------------------
(* Bounds of the model *)

\* largest number of target pixels / occluder pixels of a small scene
MaxTargetPix == 3
MaxObjPix == 1
\* longest target run of a wide scene
MaxRun == 7

\* the small camera: every pixel subset is a possible silhouette
SmallCamera == [height |-> 2, width |-> 3]
\* the wide camera: wider than the translation grid has columns
WideCamera == [height |-> 2, width |-> 53]
\* first columns of the target runs of a wide scene
WideStarts == {25}

-----------------------------------------------------------------------------
(* Program constants and scene data *)

num_x_steps == 51
num_y_steps == 38
num_rots == 16
UINT8_MAX == 255

\* depths of the scenes: the plane is the farthest surface, the target lies
\* between the two heights another object may have; the bin rim is nearest
SceneZ == [plane |-> 4, target |-> 2, objs |-> {1, 3}, bin |-> 1]

Meshes == {"target", "bin", "plane", "objs"}

-----------------------------------------------------------------------------
(* Arithmetic helpers *)

Min(a, b) == IF a <= b THEN a ELSE b

\* float -> int conversion (astype(np.int)) of the rational a / b, b > 0:
\* truncation toward zero
TruncDiv(a, b) == IF a >= 0 THEN a \div b ELSE -((-a) \div b)

RECURSIVE SumSeq(_)
SumSeq(s) == IF s = <<>> THEN 0 ELSE Head(s) + SumSeq(Tail(s))

RECURSIVE SetMin(_)
SetMin(S) ==
    LET x == CHOOSE y \in S : TRUE
    IN  IF S = {x} THEN x ELSE Min(x, SetMin(S \ {x}))

RECURSIVE SetMax(_)
SetMax(S) ==
    LET x == CHOOSE y \in S : TRUE
    IN  IF S = {x} THEN x ELSE (LET m == SetMax(S \ {x}) IN IF x >= m THEN x ELSE m)

-----------------------------------------------------------------------------
(* The depth render provider *)

Pixels(cam) == (0 .. cam.height - 1) \X (0 .. cam.width - 1)

ZeroIm(cam) == [p \in Pixels(cam) |-> 0]

FalseIm(cam) == [p \in Pixels(cam) |-> FALSE]

\* renderer.render(scene, DEPTH_ONLY): the nearest surface among the visible
\* meshes, 0 where no visible mesh lies on the ray
Render(sc, cam, vis) ==
    [p \in Pixels(cam) |->
        LET zs == {sc.depth[m][p] : m \in {n \in sc.nodes : vis[n]}} \ {0}
        IN  IF zs = {} THEN 0 ELSE SetMin(zs)]

-----------------------------------------------------------------------------
(* The scenes a search runs on *)

ImageOf(cam, S, z) == [p \in Pixels(cam) |-> IF p \in S THEN z ELSE 0]

\* a scene: the target over T, the other objects over O at depth oz, the plane
\* everywhere but over holes, the bin rim at the first pixel
MakeScene(cam, nodes, T, O, oz, holes) ==
    [nodes |-> nodes,
     depth |-> [m \in Meshes |->
         CASE m = "target" -> ImageOf(cam, T, SceneZ.target)
           [] m = "objs"   -> ImageOf(cam, O, oz)
           [] m = "plane"  -> ImageOf(cam, Pixels(cam) \ holes, SceneZ.plane)
           [] m = "bin"    -> ImageOf(cam, {<<0, 0>>}, SceneZ.bin)]]

UpTo(S, k) == {T \in SUBSET S : Cardinality(T) <= k}

\* scenes whose workspace lacks the bin or the plane
BareScenes(cam) ==
    {MakeScene(cam, Meshes \ {m}, {<<0, 1>>}, {}, SetMin(SceneZ.objs), {}) : m \in {"bin", "plane"}}

\* small scenes: any silhouette of the target, a few pixels of other objects
\* nearer or farther than it; or the target covered pixel for pixel; or the
\* plane ending before the last pixel, under the target; or ending there
\* under another object that also lies over one pixel of the target
SmallScenes ==
    LET cam == SmallCamera
        last == <<cam.height - 1, cam.width - 1>>
        Ts == UpTo(Pixels(cam), MaxTargetPix)
    IN  {MakeScene(cam, Meshes, T, O, oz, {}) :
            T \in Ts, O \in UpTo(Pixels(cam), MaxObjPix), oz \in SceneZ.objs}
        \cup {MakeScene(cam, Meshes, T, T, SetMin(SceneZ.objs), {}) : T \in Ts}
        \cup {MakeScene(cam, Meshes, T \cup {last}, O, oz, {last}) :
                 T \in Ts, O \in SUBSET {last}, oz \in SceneZ.objs}
        \cup UNION {{MakeScene(cam, Meshes, T, {x, last}, oz, {last}) :
                         x \in T, oz \in SceneZ.objs} : T \in Ts}
        \cup BareScenes(cam)

\* wide scenes: the target is a run of row 0 or a block of both rows, bare or
\* covered pixel for pixel by another object
WideScenes ==
    LET cam == WideCamera
        Run(rows, c0, len) == rows \X (c0 .. c0 + len - 1)
        Ts == {Run({0}, c0, len) : c0 \in WideStarts, len \in 1 .. MaxRun}
              \cup {Run(0 .. cam.height - 1, c0, 2) : c0 \in WideStarts}
    IN  {MakeScene(cam, Meshes, T, O, SetMin(SceneZ.objs), {}) : T \in Ts, O \in {{}}}
        \cup {MakeScene(cam, Meshes, T, T, SetMin(SceneZ.objs), {}) : T \in Ts}
        \cup BareScenes(cam)

-----------------------------------------------------------------------------
(* render_target_modal_mask *)

AllVisible == [m \in Meshes |-> TRUE]

AllHidden == [m \in Meshes |-> FALSE]

\* no array of the search exists yet
NoLocals(ti, tc, off, gr, sh, inb, vis, tim, inter, un, mm, mti, th) ==
    /\ ti = <<>> /\ tc = <<>> /\ off = <<>> /\ gr = <<>>
    /\ sh = <<>> /\ inb = <<>> /\ vis = <<>> /\ tim = <<>>
    /\ inter = <<>> /\ un = <<>> /\ mm = <<>> /\ mti = <<>>
    /\ th = <<0, 0>>

InitWith(cam, scenes) ==
    /\ camera = cam
    /\ scene \in scenes
    /\ is_visible = AllVisible
    /\ pre_visible = AllVisible
    /\ pc = "idle"
    /\ mode = "none"
    /\ full_depth = ZeroIm(cam)
    /\ plane_depth = ZeroIm(cam)
    /\ target_depth = ZeroIm(cam)
    /\ target_modal_mask = FalseIm(cam)
    /\ NoLocals(target_inds, target_centroid, target_depth_offset, grid,
                shifted_target_inds, in_bounds_mask, visible_shifted_target_mask,
                target_inds_mask, intersection, union, match_mask,
                matching_target_inds, iou_thresh)
    /\ dist_im = FalseIm(cam)
    /\ soft_dist_im = ZeroIm(cam)
    /\ outcome = "none"

Init == InitWith(SmallCamera, SmallScenes)

InitWide == InitWith(WideCamera, WideScenes)

\* a caller invokes find_target_distribution_2d / _3d; every array of the
\* search is created fresh
Call(m) ==
    /\ pc \in {"idle", "done"}
    /\ mode' = m
    /\ pc' = "hide"
    /\ pre_visible' = is_visible
    /\ full_depth' = ZeroIm(camera)
    /\ plane_depth' = ZeroIm(camera)
    /\ target_depth' = ZeroIm(camera)
    /\ target_modal_mask' = FalseIm(camera)
    /\ NoLocals(target_inds', target_centroid', target_depth_offset', grid',
                shifted_target_inds', in_bounds_mask', visible_shifted_target_mask',
                target_inds_mask', intersection', union', match_mask',
                matching_target_inds', iou_thresh')
    /\ dist_im' = FalseIm(camera)
    /\ soft_dist_im' = ZeroIm(camera)
    /\ outcome' = "none"
    /\ UNCHANGED <<camera, scene, is_visible>>

find_target_distribution_2d == Call("2d")

find_target_distribution_3d == Call("3d")

\* the exception leaves render_target_modal_mask and the search: no cleanup runs
Raise(exc, vis) ==
    /\ is_visible' = vis
    /\ outcome' = exc
    /\ pc' = "done"
    /\ UNCHANGED <<camera, scene, mode, pre_visible, rendered, extracted, shifted,
                   scored, dist_im, soft_dist_im>>

\* lines 258-261: hide the target, look the bin up (next(iter(...)) of an
\* empty node set raises StopIteration) and hide it
HideTargetAndBin ==
    /\ pc = "hide"
    /\ LET vis == [is_visible EXCEPT !["target"] = FALSE]
       IN  \/ /\ "bin" \in scene.nodes
              /\ is_visible' = [vis EXCEPT !["bin"] = FALSE]
              /\ pc' = "render_full"
              /\ UNCHANGED <<camera, scene, mode, pre_visible, rendered, extracted,
                             shifted, scored, returned>>
           \/ /\ "bin" \notin scene.nodes
              /\ Raise("StopIteration", vis)

\* lines 263-264
RenderFullDepth ==
    /\ pc = "render_full"
    /\ full_depth' = Render(scene, camera, is_visible)
    /\ pc' = "render_plane"
    /\ UNCHANGED <<camera, scene, is_visible, mode, pre_visible, plane_depth,
                   target_depth, target_modal_mask, extracted, shifted, scored,
                   returned>>

\* lines 266-272: hide every mesh, look the plane up, show it and render
RenderPlaneDepth ==
    /\ pc = "render_plane"
    /\ \/ /\ "plane" \in scene.nodes
          /\ is_visible' = [AllHidden EXCEPT !["plane"] = TRUE]
          /\ plane_depth' = Render(scene, camera, is_visible')
          /\ pc' = "render_target"
          /\ UNCHANGED <<camera, scene, mode, pre_visible, full_depth, target_depth,
                         target_modal_mask, extracted, shifted, scored, returned>>
       \/ /\ "plane" \notin scene.nodes
          /\ Raise("StopIteration", AllHidden)

\* lines 274-276: show the target beside the plane, render, and compare
RenderTargetDepth ==
    /\ pc = "render_target"
    /\ is_visible' = [is_visible EXCEPT !["target"] = TRUE]
    /\ target_depth' = Render(scene, camera, is_visible')
    /\ target_modal_mask' =
           [p \in Pixels(camera) |-> target_depth'[p] - full_depth[p] < 0]
    /\ pc' = "show_all"
    /\ UNCHANGED <<camera, scene, mode, pre_visible, full_depth, plane_depth,
                   extracted, shifted, scored, returned>>

\* lines 278-284: show all meshes and return the four images
ShowAllMeshes ==
    /\ pc = "show_all"
    /\ is_visible' = AllVisible
    /\ pc' = "search"
    /\ UNCHANGED <<camera, scene, mode, pre_visible, rendered, extracted, shifted,
                   scored, returned>>

-----------------------------------------------------------------------------
(* The search: find_target_distribution_2d (lines 291-353) and               *)
(* find_target_distribution_3d (lines 472-542).  The two functions differ in *)
(* the rotation of the indices and in the threshold only.                    *)

Height == camera.height

Width == camera.width

RECURSIVE SumFn(_, _)
SumFn(f, S) ==
    IF S = {} THEN 0
    ELSE LET e == CHOOSE d \in S : TRUE IN f[e] + SumFn(f, S \ {e})

\* np.where(mask): the pixels where mask holds, in row-major order
Where(mask) ==
    LET all == [k \in 1 .. Height * Width |-> <<(k - 1) \div Width, (k - 1) % Width>>]
        Holds(p) == mask[p]
    IN  SelectSeq(all, Holds)

NumInds == Len(target_inds)

\* lines 291-293, 472-474: the amodal index set, its centroid and the depth
\* offsets
ExtractTarget ==
    /\ pc = "search"
    /\ LET inds == Where([p \in Pixels(camera) |-> plane_depth[p] > target_depth[p]])
       IN  /\ target_inds' = inds
           /\ target_centroid' = <<SumSeq([i \in DOMAIN inds |-> inds[i][1]]),
                                   SumSeq([i \in DOMAIN inds |-> inds[i][2]])>>
           /\ target_depth_offset' =
                  [i \in DOMAIN inds |-> plane_depth[inds[i]] - target_depth[inds[i]]]
    /\ pc' = "grid"
    /\ UNCHANGED <<camera, scene, is_visible, mode, pre_visible, rendered, grid,
                   shifted, scored, returned>>

\* np.linspace(0, stop, num=num, dtype=np.int): i * stop / (num - 1), truncated
\* (the float product agrees with the exact one for every stop below 58)
linspace(stop, num) == [i \in 0 .. num - 1 |-> (i * stop) \div (num - 1)]

\* the distinct values of the non-decreasing samples f[0], f[1], ..., in order
Distinct(f) ==
    LET First(i) == i = 0 \/ f[i] # f[i - 1]
        firsts == SelectSeq([i \in 1 .. Cardinality(DOMAIN f) |-> i - 1], First)
    IN  [k \in 1 .. Len(firsts) |-> f[firsts[k]]]

\* (nan).astype(np.int), the centroid of an empty index set, is undefined in C:
\* some value of the type
NanAsInt == {0, -1000}

\* target_centroid.astype(np.int)
IntCentroids ==
    IF NumInds > 0
    THEN {<<target_centroid[1] \div NumInds, target_centroid[2] \div NumInds>>}
    ELSE {<<v, v>> : v \in NanAsInt}

\* lines 296-302, 477-483: grid = np.meshgrid(y, x), flattened (x varies
\* slowest), minus the truncated centroid.  The model keeps the distinct
\* columns of grid, in the order of grid, and how many columns equal each.
GenerateGrid ==
    /\ pc = "grid"
    /\ LET x == linspace(Width - 1, num_x_steps)
           y == linspace(Height - 1, num_y_steps)
           xs == Distinct(x)
           ys == Distinct(y)
       IN  \E c \in IntCentroids :
              grid' = [n \in 1 .. Len(xs) * Len(ys) |->
                          LET xv == xs[((n - 1) \div Len(ys)) + 1]
                              yv == ys[((n - 1) % Len(ys)) + 1]
                          IN  [shift |-> <<yv - c[1], xv - c[2]>>,
                               count |-> Cardinality({j \in DOMAIN y : y[j] = yv})
                                         * Cardinality({i \in DOMAIN x : x[i] = xv})]]
    /\ pc' = "shift"
    /\ UNCHANGED <<camera, scene, is_visible, mode, pre_visible, rendered, target_inds,
                   target_centroid, target_depth_offset, shifted, scored, returned>>

\* cos and sin of rot_angles = np.arange(num_rots) * 2 * np.pi / num_rots, in
\* units of 1 / TrigScale
TrigScale == 10000

Cos == [k \in 0 .. num_rots - 1 |->
           CASE k \in {0}      -> 10000
             [] k \in {1, 15}  -> 9239
             [] k \in {2, 14}  -> 7071
             [] k \in {3, 13}  -> 3827
             [] k \in {4, 12}  -> 0
             [] k \in {5, 11}  -> -3827
             [] k \in {6, 10}  -> -7071
             [] k \in {7, 9}   -> -9239
             [] k \in {8}      -> -10000]

Sin == [k \in 0 .. num_rots - 1 |-> Cos[(k + 12) % num_rots]]

\* lines 488-491, rotated_target_inds[k][:, i]: rot_mats = [[cos, sin], [-sin, cos]]
\* applied to target_inds - target_centroid, plus target_centroid, then
\* astype(np.int).  Exact arithmetic over the denominator NumInds * TrigScale.
rotated_target_inds(k, i) ==
    LET dr == NumInds * target_inds[i][1] - target_centroid[1]
        dc == NumInds * target_inds[i][2] - target_centroid[2]
        den == NumInds * TrigScale
    IN  <<TruncDiv(Cos[k] * dr + Sin[k] * dc + TrigScale * target_centroid[1], den),
          TruncDiv(Cos[k] * dc - Sin[k] * dr + TrigScale * target_centroid[2], den)>>

\* the candidates, numbered along axis 1 of shifted_target_inds: the columns
\* of grid (2D); the columns of grid under rotation 0, then under rotation 1,
\* and so on (3D: np.repeat of the rotations against np.tile of grid)
Candidates == 1 .. (IF mode = "2d" THEN 1 ELSE num_rots) * Len(grid)

RotOf(cd) == (cd - 1) \div Len(grid)

GridOf(cd) == grid[((cd - 1) % Len(grid)) + 1]

\* lines 305-306: every translation of grid added to target_inds
ShiftTarget2D ==
    /\ pc = "shift"
    /\ mode = "2d"
    /\ shifted_target_inds' =
           [cd \in Candidates |->
               [i \in 1 .. NumInds |->
                   <<target_inds[i][1] + GridOf(cd).shift[1],
                     target_inds[i][2] + GridOf(cd).shift[2]>>]]
    /\ pc' = "reflect"
    /\ UNCHANGED <<camera, scene, is_visible, mode, pre_visible, rendered, extracted,
                   in_bounds_mask, scored, returned>>

\* lines 486-495: every translation of grid added to every rotation of
\* target_inds
ShiftTarget3D ==
    /\ pc = "shift"
    /\ mode = "3d"
    /\ LET rot == [k \in 0 .. num_rots - 1 |->
                      [i \in 1 .. NumInds |-> rotated_target_inds(k, i)]]
       IN  shifted_target_inds' =
               [cd \in Candidates |->
                   [i \in 1 .. NumInds |->
                       <<rot[RotOf(cd)][i][1] + GridOf(cd).shift[1],
                         rot[RotOf(cd)][i][2] + GridOf(cd).shift[2]>>]]
    /\ pc' = "reflect"
    /\ UNCHANGED <<camera, scene, is_visible, mode, pre_visible, rendered, extracted,
                   in_bounds_mask, scored, returned>>

\* an index beyond the bound mirrored back into the image
MirrorReflect(v, bound) == IF v >= bound THEN 2 * bound - 1 - v ELSE v

\* shifted[over] = bound - 1 - shifted[over], over = shifted >= bound
Reflect(v, bound) == IF v >= bound THEN bound - 1 - v ELSE v

\* lines 309-313, 498-502: reflect the indices at or beyond a bound, in place,
\* and mark the index pairs that are non-negative afterwards
ReflectIndices ==
    /\ pc = "reflect"
    /\ shifted_target_inds' =
           [cd \in DOMAIN shifted_target_inds |->
               [i \in 1 .. NumInds |->
                   <<Reflect(shifted_target_inds[cd][i][1], Height),
                     Reflect(shifted_target_inds[cd][i][2], Width)>>]]
    /\ in_bounds_mask' =
           [cd \in DOMAIN shifted_target_inds |->
               [i \in 1 .. NumInds |->
                   /\ shifted_target_inds'[cd][i][1] >= 0
                   /\ shifted_target_inds'[cd][i][2] >= 0]]
    /\ pc' = "occlusion"
    /\ UNCHANGED <<camera, scene, is_visible, mode, pre_visible, rendered, extracted,
                   scored, returned>>

\* numpy accepts the index v on an axis of length bound iff -bound <= v < bound
ValidIndex(v, bound) == -bound <= v /\ v < bound

\* im[tuple(inds)]: a negative index counts from the end of its axis
ImageAt(im, s) ==
    im[<<IF s[1] < 0 THEN s[1] + Height ELSE s[1], IF s[2] < 0 THEN s[2] + Width ELSE s[2]>>]

\* does the bulk indexing of plane_depth and full_depth raise IndexError
IndexFault ==
    \E cd \in DOMAIN shifted_target_inds, i \in 1 .. NumInds :
        ~(/\ ValidIndex(shifted_target_inds[cd][i][1], Height)
          /\ ValidIndex(shifted_target_inds[cd][i][2], Width))

\* lines 315-319, 504-508: the depth of every shifted pixel against the scene
\* without the target
EvaluateOcclusion ==
    /\ pc = "occlusion"
    /\ \/ /\ IndexFault
          /\ Raise("IndexError", is_visible)
       \/ /\ ~IndexFault
          /\ visible_shifted_target_mask' =
                 [cd \in DOMAIN shifted_target_inds |->
                     [i \in 1 .. NumInds |->
                         /\ ImageAt(plane_depth, shifted_target_inds[cd][i])
                                - target_depth_offset[i]
                              < ImageAt(full_depth, shifted_target_inds[cd][i])
                         /\ in_bounds_mask[cd][i]]]
          /\ target_inds_mask' = [i \in 1 .. NumInds |-> target_modal_mask[target_inds[i]]]
          /\ pc' = "match"
          /\ UNCHANGED <<camera, scene, is_visible, mode, pre_visible, rendered,
                         extracted, shifted, intersection, union, match_mask,
                         matching_target_inds, iou_thresh, returned>>

\* shifted_target_inds[:, mask], as the number of selected index pairs per
\* pixel: every column of grid that holds the translation of a selected
\* candidate selects its pixels once
SelectedInds(mask) ==
    LET hits == UNION {{<<cd, i>> : i \in {j \in 1 .. NumInds : mask[cd][j]}} :
                          cd \in DOMAIN mask}
        ws == {grid[n].count : n \in DOMAIN grid}
        by == [w \in ws |-> {h \in hits : GridOf(h[1]).count = w}]
    IN  [p \in Pixels(camera) |->
            SumFn([w \in ws |->
                      w * Cardinality({h \in by[w] : shifted_target_inds[h[1]][h[2]] = p})],
                  ws)]

\* lines 322-324, 511-513: the target is fully occluded
MatchOccluded ==
    /\ pc = "match"
    /\ \A i \in 1 .. NumInds : ~target_inds_mask[i]
    /\ match_mask' =
           [cd \in DOMAIN shifted_target_inds |->
               [i \in 1 .. NumInds |->
                   /\ \A j \in 1 .. NumInds : ~visible_shifted_target_mask[cd][j]
                   /\ in_bounds_mask[cd][i]]]
    /\ matching_target_inds' = SelectedInds(match_mask')
    /\ pc' = "accumulate"
    /\ UNCHANGED <<camera, scene, is_visible, mode, pre_visible, rendered, extracted,
                   shifted, visible_shifted_target_mask, target_inds_mask,
                   intersection, union, iou_thresh, returned>>

\* the union without the intersection taken off
UnionCountTwice(visible, modal, inter) == visible + modal

\* lines 340, 529: union = visible_shifted_target_mask.sum(axis=1)
\*                         + target_inds_mask.sum() - intersection
UnionCount(visible, modal, inter) == visible + modal - inter

\* mask_ious >= iou_thresh for mask_ious = intersection / union and the
\* threshold th = <<num, den>>, den > 0: 0 / 0 is nan and compares false,
\* a positive count over 0 is inf
IouAtLeast(inter, un, th) ==
    CASE un > 0 -> inter * th[2] >= th[1] * un
      [] un = 0 -> inter > 0
      [] un < 0 -> inter * th[2] <= th[1] * un

\* line 344: min(0.9, (target_inds_mask.sum() - 2) / target_inds_mask.sum())
IouThresh2D(M) == IF (M - 2) * 10 <= 9 * M THEN <<M - 2, M>> ELSE <<9, 10>>

\* line 533: min(0.9, max(target_inds_mask.sum() - 2, 1) / target_inds_mask.sum())
IouThresh3D(M) ==
    LET a == IF M - 2 >= 1 THEN M - 2 ELSE 1
    IN  IF a * 10 <= 9 * M THEN <<a, M>> ELSE <<9, 10>>

\* the fallback of lines 347-348 left out
NeverFallBack(mask) == FALSE

\* lines 347-348, 536-537: `not np.any(matching_target_inds)` holds when no
\* selected coordinate is non-zero
NotAnyMatching(mask) ==
    \A cd \in DOMAIN mask, i \in 1 .. NumInds :
        mask[cd][i] => shifted_target_inds[cd][i] = <<0, 0>>

\* lines 328-348, 517-537: the target is not fully occluded
MatchVisible ==
    /\ pc = "match"
    /\ \E i \in 1 .. NumInds : target_inds_mask[i]
    /\ LET M == Cardinality({i \in 1 .. NumInds : target_inds_mask[i]})
           th == IF mode = "2d" THEN IouThresh2D(M) ELSE IouThresh3D(M)
           vis(cd) == {i \in 1 .. NumInds : visible_shifted_target_mask[cd][i]}
           inter == [cd \in DOMAIN shifted_target_inds |->
                        Cardinality({p \in {shifted_target_inds[cd][i] : i \in vis(cd)} :
                                        target_modal_mask[p]})]
           un == [cd \in DOMAIN shifted_target_inds |->
                     UnionCount(Cardinality(vis(cd)), M, inter[cd])]
           iou_mask == [cd \in DOMAIN shifted_target_inds |->
                           [i \in 1 .. NumInds |->
                               /\ IouAtLeast(inter[cd], un[cd], th)
                               /\ in_bounds_mask[cd][i]]]
       IN  /\ intersection' = inter
           /\ union' = un
           /\ iou_thresh' = th
           /\ match_mask' = iou_mask
           /\ matching_target_inds' =
                  IF NotAnyMatching(iou_mask)
                  THEN [p \in Pixels(camera) |->
                           Cardinality({i \in 1 .. NumInds : target_inds[i] = p})]
                  ELSE SelectedInds(iou_mask)
    /\ pc' = "accumulate"
    /\ UNCHANGED <<camera, scene, is_visible, mode, pre_visible, rendered, extracted,
                   shifted, visible_shifted_target_mask, target_inds_mask, returned>>

\* (nan).astype(np.uint8) is undefined in C: some value of the type
NanAsUint8 == {0, UINT8_MAX}

\* the counts scaled by 256, one more than an 8-bit pixel holds
Rescale256(count, mx) == (((UINT8_MAX + 1) * count) \div mx) % (UINT8_MAX + 1)

\* lines 352, 541: (np.iinfo(np.uint8).max * soft_dist_im / soft_dist_im.max())
\* .astype(np.uint8), for a positive maximum
Rescale(count, mx) == (UINT8_MAX * count) \div mx

\* lines 350-353, 539-542: mark and count the selected pixels, rescale the
\* counts to 8 bits and return the two images
Accumulate ==
    /\ pc = "accumulate"
    /\ dist_im' = [p \in Pixels(camera) |-> matching_target_inds[p] > 0]
    /\ LET mx == SetMax({matching_target_inds[p] : p \in Pixels(camera)})
       IN  IF mx = 0
           THEN \E v \in NanAsUint8 : soft_dist_im' = [p \in Pixels(camera) |-> v]
           ELSE soft_dist_im' =
                    [p \in Pixels(camera) |-> Rescale(matching_target_inds[p], mx)]
    /\ outcome' = "images"
    /\ pc' = "done"
    /\ UNCHANGED <<camera, scene, is_visible, mode, pre_visible, rendered, extracted,
                   shifted, scored>>

Next ==
    \/ find_target_distribution_2d
    \/ find_target_distribution_3d
    \/ HideTargetAndBin
    \/ RenderFullDepth
    \/ RenderPlaneDepth
    \/ RenderTargetDepth
    \/ ShowAllMeshes
    \/ ExtractTarget
    \/ GenerateGrid
    \/ ShiftTarget2D
    \/ ShiftTarget3D
    \/ ReflectIndices
    \/ EvaluateOcclusion
    \/ MatchOccluded
    \/ MatchVisible
    \/ Accumulate

Spec == Init /\ [][Next]_vars

SpecWide == InitWide /\ [][Next]_vars

-----------------------------------------------------------------------------
(* Properties *)

\* the search has returned its two images
Finished == pc = "done" /\ outcome = "images"

\* the amodal index set, read off the two renders
AmodalPixels == {p \in Pixels(camera) : plane_depth[p] > target_depth[p]}

\* the original modal pixel count
ModalCount == Cardinality({i \in DOMAIN target_inds_mask : target_inds_mask[i]})

VisibleRegime == Finished /\ ModalCount >= 1

OccludedRegime == Finished /\ Len(target_inds) >= 1 /\ ModalCount = 0

Unoccluded == Len(target_inds) >= 1 /\ ModalCount = Len(target_inds)

AllInBounds(cd) == \A i \in DOMAIN in_bounds_mask[cd] : in_bounds_mask[cd][i]

NoneVisible(cd) ==
    \A i \in DOMAIN visible_shifted_target_mask[cd] : ~visible_shifted_target_mask[cd][i]

\* candidate cd has a selected pixel, and the images show it
Contributes(cd) ==
    \E i \in DOMAIN match_mask[cd] :
        match_mask[cd][i] /\ dist_im[shifted_target_inds[cd][i]]

NoCandidateMatches ==
    \A cd \in DOMAIN match_mask : \A i \in DOMAIN match_mask[cd] : ~match_mask[cd][i]

MaxCount == SetMax({matching_target_inds[p] : p \in Pixels(camera)})

\* C1: a search on a non-empty amodal index set returns a binary image with a
\* true pixel and an intensity image with a positive pixel, in either regime.
C1_NonEmptyOutput ==
    (Finished /\ Len(target_inds) >= 1)
        => /\ \E p \in Pixels(camera) : dist_im[p]
           /\ \E p \in Pixels(camera) : soft_dist_im[p] > 0

\* C2: whenever a search hands control back, by a return or by an exception
\* part-way through the renders, every visibility flag has its pre-call value.
C2_FlagsRestored == pc = "done" => is_visible = pre_visible

\* C3: a search on an empty amodal index set does not return an ordinary pair
\* of images.
C3_DegenerateSignalled == Finished => Len(target_inds) >= 1

\* C4: in the visible regime, with a positive threshold, a candidate
\* contributes pixels iff its IoU is at least the threshold and every one of
\* its pixels is in-bounds.
C4_MatchIffIouAndInBounds ==
    (VisibleRegime /\ iou_thresh[1] >= 1) =>
        \A cd \in DOMAIN match_mask :
            Contributes(cd) <=>
                /\ intersection[cd] * iou_thresh[2] >= iou_thresh[1] * union[cd]
                /\ AllInBounds(cd)

\* C5: in the fully-occluded regime a candidate contributes iff none of its
\* pixels is visible and all are in-bounds, and then it contributes them all.
C5_OccludedMatchIffHiddenAndInBounds ==
    OccludedRegime =>
        \A cd \in DOMAIN match_mask :
            /\ Contributes(cd) <=> (NoneVisible(cd) /\ AllInBounds(cd))
            /\ Contributes(cd) => \A i \in DOMAIN match_mask[cd] : match_mask[cd][i]

\* C6: in both searches the threshold is min(0.9, max(M - 2, 1) / M) for the
\* modal pixel count M >= 1, and so it is positive.
C6_Threshold ==
    (pc \in {"accumulate", "done"} /\ ModalCount >= 1) =>
        LET M == ModalCount
            a == IF M - 2 >= 1 THEN M - 2 ELSE 1
        IN  /\ iou_thresh[1] > 0
            /\ IF 10 * a <= 9 * M
               THEN iou_thresh[1] * M = a * iou_thresh[2]
               ELSE iou_thresh[1] * 10 = 9 * iou_thresh[2]

\* C7: after the reflection every coordinate of every candidate is a valid
\* index on its axis, so the bulk indexing never faults.
C7_ValidIndices ==
    /\ outcome # "IndexError"
    /\ pc = "occlusion" =>
           \A cd \in DOMAIN shifted_target_inds :
               \A i \in DOMAIN shifted_target_inds[cd] :
                   /\ shifted_target_inds[cd][i][1] \in -Height .. Height - 1
                   /\ shifted_target_inds[cd][i][2] \in -Width .. Width - 1

C9_FallbackToOriginal ==
    (VisibleRegime /\ NoCandidateMatches) =>
        \A p \in Pixels(camera) :
            /\ dist_im[p] <=> p \in AmodalPixels
            /\ soft_dist_im[p] > 0 <=> p \in AmodalPixels

C9_Witness ==
    /\ VisibleRegime /\ NoCandidateMatches
    /\ mode = "2d"
    /\ Len(target_inds) >= 2

\* C10: when some pixel is hit, the intensity image has only values in
\* 0 .. 255, its maximum is 255, and the pixels of the highest hit count are
\* the ones that carry it.
C10_RescaleToUint8 ==
    (Finished /\ MaxCount >= 1) =>
        /\ \A p \in Pixels(camera) : soft_dist_im[p] \in 0 .. 255
        /\ \E p \in Pixels(camera) : soft_dist_im[p] = 255
        /\ \A p \in Pixels(camera) :
               soft_dist_im[p] = 255 <=> matching_target_inds[p] = MaxCount

C10_Witness ==
    /\ Finished
    /\ \E p, q \in Pixels(camera) :
           /\ matching_target_inds[q] >= 1
           /\ matching_target_inds[p] > matching_target_inds[q]
           /\ soft_dist_im[q] \in 1 .. 254


\* the pixels of candidate cd that lie in the image
InBoundsPixels(cd) ==
    {shifted_target_inds[cd][i] :
        i \in {j \in DOMAIN in_bounds_mask[cd] : in_bounds_mask[cd][j]}}

\* C11: the in-bounds mask of a pixel is true exactly when its coordinate
\* before the reflection lies in [0, bound) on both axes; a pixel whose mask is
\* false is never visible, never in an intersection, never selected, and the
\* images mark only in-bounds selected pixels or, after the fallback, the
\* original index set.
C11_InBoundsOnly ==
    /\ [][pc = "reflect" =>
            \A cd \in DOMAIN shifted_target_inds :
                \A i \in DOMAIN shifted_target_inds[cd] :
                    in_bounds_mask'[cd][i] <=>
                        /\ shifted_target_inds[cd][i][1] \in 0 .. Height - 1
                        /\ shifted_target_inds[cd][i][2] \in 0 .. Width - 1]_vars
    /\ [](\A cd \in DOMAIN visible_shifted_target_mask :
              \A i \in DOMAIN visible_shifted_target_mask[cd] :
                  visible_shifted_target_mask[cd][i] => in_bounds_mask[cd][i])
    /\ [](\A cd \in DOMAIN intersection :
              intersection[cd] <=
                  Cardinality({p \in InBoundsPixels(cd) : target_modal_mask[p]}))
    /\ [](\A cd \in DOMAIN match_mask :
              \A i \in DOMAIN match_mask[cd] :
                  match_mask[cd][i] => in_bounds_mask[cd][i])
    /\ [](Finished =>
              \A p \in Pixels(camera) :
                  (dist_im[p] \/ matching_target_inds[p] >= 1) =>
                      \/ \E cd \in DOMAIN match_mask :
                             \E i \in DOMAIN match_mask[cd] :
                                 /\ match_mask[cd][i]
                                 /\ in_bounds_mask[cd][i]
                                 /\ shifted_target_inds[cd][i] = p
                      \/ p \in AmodalPixels)

C11_Witness ==
    /\ Finished
    /\ \E p \in Pixels(camera) : ~dist_im[p]
    /\ \E cd \in DOMAIN match_mask :
           \E i, j \in DOMAIN match_mask[cd] :
               /\ ~in_bounds_mask[cd][i]
               /\ ValidIndex(shifted_target_inds[cd][i][1], Height)
               /\ ValidIndex(shifted_target_inds[cd][i][2], Width)
               /\ ~dist_im[<<shifted_target_inds[cd][i][1] % Height,
                             shifted_target_inds[cd][i][2] % Width>>]
               /\ match_mask[cd][j]


\* the target is the nearest surface along the ray of pixel p with every mesh
\* of the scene rendered
TargetIsNearest(p) ==
    /\ scene.depth.target[p] > 0
    /\ \A m \in scene.nodes \ {"target"} :
           scene.depth[m][p] = 0 \/ scene.depth[m][p] > scene.depth.target[p]

\* C12: the modal mask handed to the search is true at a pixel exactly when
\* the target is the nearest surface there in the full scene (other objects,
\* bin and plane rendered).
C12_ModalIsNearestSurface ==
    pc = "search" =>
        \A p \in Pixels(camera) : target_modal_mask[p] <=> TargetIsNearest(p)


\* C13: in the visible regime every candidate's union is at least 1 and its
\* intersection lies between 0 and the union, so its IoU is a value in [0, 1].
C13_IouWithinUnit ==
    (pc \in {"accumulate", "done"} /\ ModalCount >= 1) =>
        \A cd \in DOMAIN union :
            /\ union[cd] >= 1
            /\ intersection[cd] >= 0
            /\ intersection[cd] <= union[cd]

====
